---- MODULE Spec2Model ----
(***************************************************************************)
(* Validation gate of codex-agent-harness.                                 *)
(*                                                                         *)
(*   run_until_green.py : the bounded iteration loop (checks, checklist    *)
(*                        state, no-progress counter, diagnostic branch,   *)
(*                        run summary and exit status)                     *)
(*   compile_checks.py  : the contract compiler (checklist normalisation   *)
(*                        and dependency-cycle detection)                  *)
(*                                                                         *)
(* Progress scores are Python floats rounded to 6 decimals; they are kept  *)
(* here as integers in units of 10^-6.                                     *)
(***************************************************************************)
EXTENDS Integers, Sequences, FiniteSets, TLC

\* ------------------------------------------------------------------ bounds
MaxIterations == 4
MaxChecks == 2
MaxItems == 2
MaxRawItems == 3

\* --------------------------------------------------------- program values
\* Python's None (previous_progress, satisfied_at_step, validator scores).
Null == -1
\* round(x, 6): one unit of the sixth decimal place.
Unit == 1000000
\* if consecutive_no_progress >= 2
NoProgressThreshold == 2

VARIABLES
  \* the contract, as read by read_contract / main
  checks,                 \* names of the contract's checks, in contract order
  checklist_items,        \* checklist_contract.items
  max_iterations,
  \* main's locals
  pc,                     \* "iterate" | "diagnose" | "summarise" | "done"
  loop_exit,              \* which exit the loop took
  iterations,
  all_passed,
  aborted,
  strict_early_terminated,
  reason_codes,
  previous_progress,
  progress_score,
  consecutive_no_progress,
  max_consecutive_no_progress,
  strategy_switch_tag,
  diagnostic_ran,
  diagnostic_result,
  latest_checklist_state,
  strict_fail_item_ids,
  checklist_delta,        \* the delta appended in the last checklist recomputation
  progress_history,
  progress_deltas,
  checklist_deltas,
  \* checklist_timeline.jsonl: one record per checklist recomputation
  checklist_timeline,
  \* the write calls on handle (iteration_log.jsonl) and checklist_handle
  \* (checklist_timeline.jsonl), in program order
  writes,
  \* iteration_log.jsonl: the last record of each event kind
  progress_event,
  strategy_switch_event,
  \* the check executor: whether any execution so far has passed, and how
  \* many times each check has been executed
  ever_passed,
  check_runs,
  \* outputs
  summary,
  exit_code,
  \* compile_checks.py: the task read from --task-json, what main produced,
  \* and what a second compilation of the same task produced
  task,
  compiled,
  recompiled

vars == << checks, checklist_items, max_iterations, pc,
           loop_exit, iterations, all_passed, aborted, strict_early_terminated,
           reason_codes, previous_progress, progress_score,
           consecutive_no_progress, max_consecutive_no_progress,
           strategy_switch_tag, diagnostic_ran, diagnostic_result,
           latest_checklist_state, strict_fail_item_ids, checklist_delta,
           progress_history, progress_deltas, checklist_deltas,
           checklist_timeline, writes,
           progress_event, strategy_switch_event, ever_passed, check_runs,
           summary, exit_code, task, compiled, recompiled >>

compile_vars == << task, compiled, recompiled >>

runner_vars == << checks, checklist_items, max_iterations, pc,
                  loop_exit, iterations, all_passed, aborted,
                  strict_early_terminated, reason_codes, previous_progress,
                  progress_score, consecutive_no_progress,
                  max_consecutive_no_progress, strategy_switch_tag,
                  diagnostic_ran, diagnostic_result, latest_checklist_state,
                  strict_fail_item_ids, checklist_delta, progress_history,
                  progress_deltas, checklist_deltas, checklist_timeline,
                  writes, progress_event,
                  strategy_switch_event, ever_passed, check_runs, summary,
                  exit_code >>

\* ---------------------------------------------------------------- helpers
Max(a, b) == IF a >= b THEN a ELSE b

Contains(seq, x) == \E i \in 1..Len(seq) : seq[i] = x

RECURSIVE _dedupe(_)
_dedupe(values) ==
  IF values = << >> THEN << >>
  ELSE LET front == _dedupe(SubSeq(values, 1, Len(values) - 1))
           value == values[Len(values)]
       IN  IF Contains(front, value) THEN front ELSE Append(front, value)

\* round(passed / max(1, len(checks)), 6), in units of 10^-6
Score(passed, total) ==
  LET d == Max(1, total) IN (2 * passed * Unit + d) \div (2 * d)

\* ----------------------------------------------------------------- inputs
AllCheckNames == << "a", "b", "c", "d" >>
ItemIds == { "a", "b" }
Strictness == { "strict", "normal" }

CheckLists == { SubSeq(AllCheckNames, 1, n) : n \in 1..MaxChecks }

\* max_iterations = int(contract.get("max_iterations", 5)): any integer of
\* the contract is taken as it is; the smallest one drawn is negative.
MinIterations == 0 - 1

\* A checklist item as compile_checks emits it; pass_when_check defaults to
\* the item id; depends_on is empty or names the other item id (which is
\* dangling when no item of the checklist carries it).
ItemKinds ==
  UNION { { [ item_id |-> id, strictness |-> s, depends_on |-> deps,
              pass_when_check |-> id, status |-> "unsatisfied",
              satisfied_at_step |-> Null ] :
            s \in Strictness,
            deps \in { << >> } \cup { << d >> : d \in ItemIds \ { id } } } :
          id \in ItemIds }

Checklists == UNION { [ 1..n -> ItemKinds ] : n \in 0..MaxItems }

\* correction_rollout = {} (absent from the contract)
NoRollout == [ present |-> FALSE, validator_score_o1 |-> Null,
               validator_score_o2 |-> Null ]

\* A correction_rollout whose required fields are present and whose first
\* attempt scored 1.0; the second attempt scored 0.0 (regressed) or 1.0.
Rollouts ==
  { NoRollout } \cup
  { [ present |-> TRUE, validator_score_o1 |-> Unit, validator_score_o2 |-> o2 ] :
    o2 \in { 0, Unit } }

NoSummary ==
  [ all_passed |-> FALSE, aborted |-> FALSE, iterations |-> 0,
    strict_early_terminated |-> FALSE, reason_codes |-> << >>,
    strategy_switch_tag |-> "none", diagnostic_ran |-> FALSE,
    max_consecutive_no_progress |-> 0, correction_rollout |-> NoRollout,
    progress_delta |-> 0, progress_delta_aggregate |-> 0,
    checklist_flip_count |-> 0 ]

NoDelta == [ iteration |-> 0, flipped_to_satisfied |-> << >>,
             strict_fail_item_ids |-> << >>, strict_blocked_item_ids |-> << >> ]

NoDiagnostic == [ diagnostic_progress |-> Null, diagnostic_delta |-> 0,
                  diagnostic_passed_checks |-> 0 ]

NoProgressEvent == [ iteration |-> 0, progress_score |-> 0, progress_delta |-> 0,
                     no_progress_step |-> FALSE, consecutive_no_progress |-> 0 ]

\* ------------------------------------------------- _build_checklist_state
\* state_map.get(dep)
StateMapGet(state_map, dep) ==
  IF dep \in DOMAIN state_map THEN state_map[dep] ELSE "none"

DepBlocked(depends_on, state_map) ==
  \E i \in 1..Len(depends_on) : StateMapGet(state_map, depends_on[i]) # "satisfied"

\* check_pass_map.get(pass_when, False)
CheckPassed(check_pass_map, pass_when) ==
  IF pass_when \in DOMAIN check_pass_map THEN check_pass_map[pass_when] ELSE FALSE

ItemStatus(item, state_map, check_pass_map) ==
  IF DepBlocked(item.depends_on, state_map) THEN "blocked"
  ELSE IF CheckPassed(check_pass_map, item.pass_when_check) THEN "satisfied"
  ELSE "unsatisfied"

SatisfiedAtStep(item, status, iteration) ==
  IF status # "satisfied" THEN Null
  ELSE IF item.satisfied_at_step = Null THEN iteration
  ELSE item.satisfied_at_step

\* Mutant of IsStrictFail: the wrong status is tested.
IsStrictFailMutant(item, status) == item.strictness = "strict" /\ status = "blocked"

IsStrictFail(item, status) == item.strictness = "strict" /\ status = "unsatisfied"

IsStrictBlocked(item, status) == item.strictness = "strict" /\ status = "blocked"

\* Mutant of ItemAfterRow: row = item, the row is the item itself.
ItemAfterRowMutant(item, row) == row

\* row = dict(item): the row is a new dict, so the assignments to
\* row["status"] and row["satisfied_at_step"] leave the item of the input
\* list as it was.
ItemAfterRow(item, row) == item

RECURSIVE BuildFrom(_, _, _, _, _)
BuildFrom(items, k, check_pass_map, iteration, acc) ==
  IF k > Len(items) THEN acc
  ELSE
    LET item == items[k]
        status == ItemStatus(item, acc.state_map, check_pass_map)
        step == SatisfiedAtStep(item, status, iteration)
        flipped == status = "satisfied" /\ item.satisfied_at_step = Null
        row == [ item EXCEPT !.status = status, !.satisfied_at_step = step ]
        next ==
          [ state |-> Append(acc.state, row),
            items_after |-> Append(acc.items_after, ItemAfterRow(item, row)),
            flips |-> IF flipped THEN Append(acc.flips, item.item_id) ELSE acc.flips,
            strict_fail_item_ids |->
              IF IsStrictFail(item, status)
              THEN Append(acc.strict_fail_item_ids, item.item_id)
              ELSE acc.strict_fail_item_ids,
            strict_blocked |->
              IF IsStrictBlocked(item, status)
              THEN Append(acc.strict_blocked, item.item_id)
              ELSE acc.strict_blocked,
            state_map |->
              [ id \in DOMAIN acc.state_map \cup { item.item_id } |->
                  IF id = item.item_id THEN status ELSE acc.state_map[id] ] ]
    IN  BuildFrom(items, k + 1, check_pass_map, iteration, next)

_build_checklist_state(items, check_pass_map, iteration) ==
  BuildFrom(items, 1, check_pass_map, iteration,
            [ state |-> << >>, items_after |-> << >>, flips |-> << >>,
              strict_fail_item_ids |-> << >>, strict_blocked |-> << >>,
              state_map |-> << >> ])

\* ------------------------------------------------------------ loop tests
\* Mutant of NoProgressStep: a flat delta counts as progress.
NoProgressStepMutant(previous, delta) == previous # Null /\ delta < 0

\* Mutant of NoProgressStep: the first iteration can be a no-progress step.
NoProgressStepFirstMutant(previous, delta) == delta <= 0

\* no_progress_step = previous_progress is not None and delta <= 0.0
NoProgressStep(previous, delta) == previous # Null /\ delta <= 0

\* Mutant of StagnationReached: the threshold is compared with >.
StagnationReachedMutant(counter) == counter > NoProgressThreshold

\* if consecutive_no_progress >= 2
StagnationReached(counter) == counter >= NoProgressThreshold

\* Mutant of DiagnosticFlat: a zero delta does not abort.
DiagnosticFlatMutant(delta) == delta < 0

\* if diagnostic_delta <= 0.0
DiagnosticFlat(delta) == delta <= 0

\* Mutant of StrictBreak: a single strict failure does not stop the loop.
StrictBreakMutant(strict_fails) == Len(strict_fails) > 1

\* if strict_fails: ... break
StrictBreak(strict_fails) == strict_fails # << >>

\* ------------------------------------------------------------------- Init
\* ====================================================== compile_checks.py
CHECKLIST_ALLOWED_STATUS == { "unsatisfied", "satisfied", "blocked" }
CHECKLIST_ALLOWED_STRICTNESS == { "strict", "normal" }

RawItemIds == { "a", "b", "c" }

\* A key the JSON object does not have.
Absent == "<absent>"

\* dict.get(key, default)
Get(value, default) == IF value = Absent THEN default ELSE value

\* str.strip(), over the strings the tasks carry
strip(s) ==
  CASE s = " " -> ""
    [] s = " a " -> "a"
    [] OTHER -> s

\* f"item-{idx:03d}"
DefaultItemId(idx) ==
  << "item-001", "item-002", "item-003", "item-004", "item-005" >>[idx]

\* f"check-{index+1}"
DefaultCheckName(index) ==
  << "check-1", "check-2", "check-3", "check-4", "check-5" >>[index + 1]

RawItem(id, q, strictness, deps, status) ==
  [ item_id |-> id, question |-> q, strictness |-> strictness,
    depends_on |-> deps, status |-> status,
    satisfied_at_step |-> Null, pass_when_check |-> Absent ]

\* Raw checklist items of a task: items with an item_id that are complete
\* or have a blank question, with at most one dependency, and items whose
\* item_id, question, strictness or status is absent, blank, padded or not
\* an allowed value.
RawItemKinds ==
  { RawItem(id, q, "normal", deps, "unsatisfied") :
      id \in RawItemIds, q \in { "", "Q" },
      deps \in { << >> } \cup { << d >> : d \in RawItemIds } }
  \cup { RawItem(Absent, "Q", Absent, << >>, Absent),
         RawItem(" ", "Q", "normal", << >>, "unsatisfied"),
         RawItem(" a ", "Q", "strict", << >>, "satisfied"),
         RawItem("a", Absent, "normal", << >>, "unsatisfied"),
         RawItem("a", " ", "normal", << >>, "unsatisfied"),
         RawItem("a", "Q", "lenient", << >>, "unsatisfied"),
         RawItem("a", "Q", "normal", << >>, "done") }

RawChecklists == UNION { [ 1..n -> RawItemKinds ] : n \in 0..MaxRawItems }

\* acceptance_tests: none, one runnable check, one check without a command,
\* both, one check with a blank command, and an unnamed check after an
\* entry with neither name nor command.
RawCheckLists ==
  { << >>,
    << [ name |-> "a", command |-> "true" ] >>,
    << [ name |-> "a", command |-> "" ] >>,
    << [ name |-> "a", command |-> "true" ], [ name |-> "b", command |-> "" ] >>,
    << [ name |-> "a", command |-> " " ] >>,
    << [ name |-> Absent, command |-> Absent ],
       [ name |-> Absent, command |-> "true" ] >> }

\* memory_update_bundle, as the set of its keys; every key it has carries a
\* non-empty value.
MEMORY_REQUIRED_KEYS ==
  { "worktree_path", "candidate_changes", "evidence_refs", "commit_message",
    "reason_codes" }
NoBundle == { }
MemoryBundles ==
  { NoBundle, MEMORY_REQUIRED_KEYS, { "worktree_path" },
    MEMORY_REQUIRED_KEYS \ { "commit_message" } }

\* evidence_objects: a list of objects, each with the keys it has and its
\* confidence (in units of 10^-6, Null when the key is absent); a location
\* it has is an object.
EVIDENCE_REQUIRED_FIELDS == { "source", "location", "span", "confidence" }
EvidenceLists ==
  { << >>,
    << [ keys |-> EVIDENCE_REQUIRED_FIELDS, confidence |-> 9 * (Unit \div 10) ] >>,
    << [ keys |-> EVIDENCE_REQUIRED_FIELDS, confidence |-> 15 * (Unit \div 10) ] >>,
    << [ keys |-> { "source" }, confidence |-> Null ] >> }

\* execution_audit: trust_level, execution_profile and audit_ref, each
\* absent or present.
NoAudit == [ trust_level |-> Absent, execution_profile |-> Absent, audit_ref |-> Absent ]
Audits ==
  { NoAudit,
    [ trust_level |-> Absent, execution_profile |-> "sandbox", audit_ref |-> "audit-1" ],
    [ trust_level |-> "untrusted", execution_profile |-> "sandbox", audit_ref |-> Absent ] }

TrustLevels == { Absent, "trusted", "untrusted", "generated_untrusted" }

RawTask(tests, items, tag, bundle, strict, evidence, trust, audit) ==
  [ acceptance_tests |-> tests, items |-> items, task_tag |-> tag,
    memory_update_bundle |-> bundle, strict_evidence_objects |-> strict,
    evidence_objects |-> evidence, trust_level |-> trust,
    execution_audit |-> audit ]

\* Tasks that declare checks and a checklist only.
Tasks ==
  { RawTask(tests, items, Absent, NoBundle, FALSE, << >>, Absent, NoAudit) :
      tests \in RawCheckLists, items \in RawChecklists }

NoTask == RawTask(<< >>, << >>, Absent, NoBundle, FALSE, << >>, Absent, NoAudit)

\* Tasks with one runnable check, no or one checklist item, and the
\* auxiliary declarations.
AuxTasks ==
  { RawTask(<< [ name |-> "a", command |-> "true" ] >>, items, tag, bundle,
            strict, evidence, trust, audit) :
      items \in { << >>, << RawItem("a", "Q", "normal", << >>, "unsatisfied") >> },
      tag \in { Absent, "memory_write" }, bundle \in MemoryBundles,
      strict \in BOOLEAN, evidence \in EvidenceLists,
      trust \in TrustLevels, audit \in Audits }

\* --run-id of the first compilation and of a second one
RunIds == { "run-1", "run-2" }
FirstRunId == "run-1"

NoChecklistContract ==
  [ run_id |-> "", items |-> << >>, termination_policy |-> "",
    reason_codes |-> { }, version |-> "" ]

NotCompiled == [ done |-> FALSE, exit_code |-> Null, reason_codes |-> { },
                 contract_written |-> FALSE, checks |-> << >>, items |-> << >>,
                 run_id |-> "", checklist_contract |-> NoChecklistContract,
                 ok |-> FALSE, progress_delta |-> 0, gate_scores |-> << >>,
                 normalised_items |-> << >>, checklist_reason_codes |-> { } ]

\* Mutant of CheckDropped: only an absent command drops the check.
CheckDroppedMutant(command) == command = Absent

\* Lines 41, 43-44: command = str(item.get("command", "")).strip();
\* if not command: continue
CheckDropped(command) == strip(Get(command, "")) = ""

\* normalise_checks: a check without a command is dropped.
RECURSIVE normalise_checks(_)
normalise_checks(raw_checks) ==
  IF raw_checks = << >> THEN << >>
  ELSE LET index == Len(raw_checks) - 1
           front == normalise_checks(SubSeq(raw_checks, 1, index))
           item == raw_checks[index + 1]
       IN  IF CheckDropped(item.command) THEN front
           ELSE Append(front, [ name |-> strip(Get(item.name, DefaultCheckName(index))),
                                command |-> strip(Get(item.command, "")),
                                pass_condition |-> "exit_code_zero" ])

\* Lines 81-82: item_id and question as normalise_checklist reads them
ItemIdOf(item, idx) == strip(Get(item.item_id, DefaultItemId(idx)))
QuestionOf(item) == strip(Get(item.question, ""))
StrictnessOf(item) == strip(Get(item.strictness, "normal"))
StatusOf(item) == strip(Get(item.status, "unsatisfied"))

\* Mutant of ItemRejected: an item without a question is kept.
ItemRejectedMutant(item, idx) == ItemIdOf(item, idx) = ""

\* Lines 91-93: if not question or not item_id
ItemRejected(item, idx) == QuestionOf(item) = "" \/ ItemIdOf(item, idx) = ""

\* Lines 94-112: the item normalise_checklist appends
NormalisedItem(item, idx) ==
  [ item_id |-> ItemIdOf(item, idx),
    question |-> QuestionOf(item),
    strictness |-> IF StrictnessOf(item) \in CHECKLIST_ALLOWED_STRICTNESS
                   THEN StrictnessOf(item) ELSE "normal",
    depends_on |-> item.depends_on,
    status |-> IF StatusOf(item) \in CHECKLIST_ALLOWED_STATUS
               THEN StatusOf(item) ELSE "unsatisfied",
    satisfied_at_step |-> item.satisfied_at_step,
    pass_when_check |-> strip(Get(item.pass_when_check, ItemIdOf(item, idx))) ]

ItemReasonCodes(item, idx) ==
  IF ItemRejected(item, idx)
  THEN { "schema_violation/checklist_contract_missing_required" }
  ELSE IF StrictnessOf(item) \notin CHECKLIST_ALLOWED_STRICTNESS
  THEN { "schema_violation/checklist_invalid_strictness" }
  ELSE { }

\* for idx, item in enumerate(raw_items, start=1)
RECURSIVE NormalisedItems(_)
NormalisedItems(raw_items) ==
  IF raw_items = << >> THEN << >>
  ELSE LET idx == Len(raw_items)
           front == NormalisedItems(SubSeq(raw_items, 1, idx - 1))
           item == raw_items[idx]
       IN  IF ItemRejected(item, idx) THEN front
           ELSE Append(front, NormalisedItem(item, idx))

\* ---------------------------------------------------- _checklist_cycle
\* graph = {item_id: depends_on for item in items}: a later item with the
\* same item_id replaces the value of an earlier one.
GraphKeys(items) == { items[i].item_id : i \in 1..Len(items) }

GraphDeps(items, node) ==
  LET last == CHOOSE i \in 1..Len(items) :
                /\ items[i].item_id = node
                /\ \A j \in (i + 1)..Len(items) : items[j].item_id # node
  IN  items[last].depends_on

\* The keys of graph in insertion order.
RECURSIVE GraphOrder(_)
GraphOrder(items) ==
  IF items = << >> THEN << >>
  ELSE LET front == GraphOrder(SubSeq(items, 1, Len(items) - 1))
           id == items[Len(items)].item_id
       IN  IF Contains(front, id) THEN front ELSE Append(front, id)

RECURSIVE dfs(_, _, _)
RECURSIVE DfsDeps(_, _, _, _)
\* dfs(node), with the visited and stack sets it updates
dfs(items, node, st) ==
  IF node \in st.stack THEN [ st EXCEPT !.found = TRUE ]
  ELSE IF node \in st.visited THEN [ st EXCEPT !.found = FALSE ]
  ELSE LET entered == [ found |-> FALSE, visited |-> st.visited \cup { node },
                        stack |-> st.stack \cup { node } ]
           r == DfsDeps(items, GraphDeps(items, node), 1, entered)
       IN  IF r.found THEN r ELSE [ r EXCEPT !.stack = r.stack \ { node } ]

\* for dep in graph.get(node, []): if dep in graph and dfs(dep): return True
DfsDeps(items, deps, k, st) ==
  IF k > Len(deps) THEN [ st EXCEPT !.found = FALSE ]
  ELSE IF deps[k] \notin GraphKeys(items) THEN DfsDeps(items, deps, k + 1, st)
  ELSE LET r == dfs(items, deps[k], st)
       IN  IF r.found THEN r ELSE DfsDeps(items, deps, k + 1, r)

\* any(dfs(node) for node in graph)
RECURSIVE AnyDfs(_, _, _, _)
AnyDfs(items, order, k, st) ==
  IF k > Len(order) THEN FALSE
  ELSE LET r == dfs(items, order[k], st)
       IN  IF r.found THEN TRUE ELSE AnyDfs(items, order, k + 1, r)

_checklist_cycle(items) ==
  AnyDfs(items, GraphOrder(items), 1,
         [ found |-> FALSE, visited |-> { }, stack |-> { } ])

\* normalise_checklist: the normalised items and the reason codes
normalise_checklist(raw_items) ==
  LET items == NormalisedItems(raw_items)
      item_codes == UNION { ItemReasonCodes(raw_items[i], i) : i \in 1..Len(raw_items) }
      cycle_codes == IF _checklist_cycle(items)
                     THEN { "schema_violation/checklist_dependency_cycle" } ELSE { }
  IN  [ items |-> items, reason_codes |-> item_codes \cup cycle_codes ]

\* Mutant of ChecklistContract: the version is taken from the run id.
ChecklistContractMutant(run_id, items, codes) ==
  [ run_id |-> run_id, items |-> items, termination_policy |-> "strict_gate",
    reason_codes |-> codes, version |-> run_id ]

\* Lines 117-123: the checklist contract normalise_checklist returns; the
\* task names no termination_policy and no version.
ChecklistContract(run_id, items, codes) ==
  [ run_id |-> run_id, items |-> items, termination_policy |-> "strict_gate",
    reason_codes |-> codes, version |-> "1.0.0" ]

\* Lines 246-249: a task without runnable checks.
ChecksReasonCodes(compiled_checks) ==
  IF compiled_checks = << >>
  THEN { "validation_failed/tests_not_run",
         "schema_violation/validation_contract_missing_checks" }
  ELSE { }

\* Line 214: the gate scores of the fail-closed payload (weights in units
\* of 10^-6).
FailGateScores(check_count) ==
  << [ name |-> "checks_present", passed |-> check_count > 0, weight |-> Unit ] >>

\* Line 232: memory_required
memory_required(raw_task) ==
  raw_task.task_tag = "memory_write" \/ raw_task.memory_update_bundle # NoBundle

\* Lines 250-259: the codes of the memory update bundle; the bundle names
\* no defrag run.
MemoryReasonCodes(raw_task) ==
  LET memory_bundle == raw_task.memory_update_bundle
  IN  IF memory_required(raw_task)
      THEN (IF MEMORY_REQUIRED_KEYS \subseteq memory_bundle THEN { }
            ELSE { "schema_violation/memory_update_bundle_missing_required" })
           \cup (IF memory_bundle # NoBundle /\ "commit_message" \notin memory_bundle
                 THEN { "validation_failed/memory_commit_missing" } ELSE { })
           \cup (IF memory_bundle # NoBundle /\ "evidence_refs" \notin memory_bundle
                 THEN { "validation_failed/memory_provenance_missing" } ELSE { })
      ELSE { }

\* _validate_evidence_objects, for one object
EvidenceObjectCodes(item) ==
  (IF EVIDENCE_REQUIRED_FIELDS \subseteq item.keys THEN { }
   ELSE { "schema_violation/evidence_object_missing_required" })
  \cup (IF item.confidence = Null
        THEN { "schema_violation/evidence_object_invalid_type" }
        ELSE IF item.confidence < 0 \/ item.confidence > Unit
        THEN { "validation_failed/evidence_confidence_out_of_range" }
        ELSE { })

_validate_evidence_objects(raw) ==
  UNION { EvidenceObjectCodes(raw[i]) : i \in 1..Len(raw) }

\* Lines 260-261
EvidenceReasonCodes(raw_task) ==
  IF raw_task.strict_evidence_objects
  THEN _validate_evidence_objects(raw_task.evidence_objects)
  ELSE { }

\* Line 233: trust_level
trust_level(raw_task) ==
  Get(raw_task.trust_level, Get(raw_task.execution_audit.trust_level, "trusted"))

TrustValidated(raw_task) ==
  trust_level(raw_task) \in { "untrusted", "generated_untrusted" }

\* Lines 286-290: the task itself names no requested_profile and no
\* audit_ref.
TrustReasonCodes(raw_task) ==
  IF TrustValidated(raw_task)
  THEN (IF strip(Get(raw_task.execution_audit.execution_profile, "")) = ""
        THEN { "validation_failed/missing_execution_profile" } ELSE { })
       \cup (IF strip(Get(raw_task.execution_audit.audit_ref, "")) = ""
             THEN { "validation_failed/missing_execution_audit_ref" } ELSE { })
  ELSE { }

\* Lines 313-334: the gate scores of an emitted contract; the task names no
\* stop conditions and no evidence paths.
ContractGateScores(items, raw_task) ==
  << [ name |-> "checks_present", passed |-> TRUE, weight |-> 4 * (Unit \div 10) ],
     [ name |-> "checklist_present", passed |-> items # << >>,
       weight |-> 3 * (Unit \div 10) ],
     [ name |-> "stop_conditions_present", passed |-> FALSE, weight |-> Unit \div 10 ],
     [ name |-> "evidence_paths_present", passed |-> FALSE, weight |-> Unit \div 10 ],
     [ name |-> "memory_bundle_valid",
       passed |-> \/ ~memory_required(raw_task)
                  \/ { "worktree_path", "evidence_refs", "commit_message" }
                       \subseteq raw_task.memory_update_bundle,
       weight |-> Unit \div 10 ],
     [ name |-> "execution_audit_valid",
       passed |-> \/ ~TrustValidated(raw_task)
                  \/ /\ strip(Get(raw_task.execution_audit.execution_profile, "")) # ""
                     /\ strip(Get(raw_task.execution_audit.audit_ref, "")) # "",
       weight |-> Unit \div 10 ] >>

\* Line 335: round(min(1.0, len(checks) / 10.0), 3)
ContractProgressDelta(check_count) ==
  IF check_count >= 10 THEN Unit ELSE check_count * (Unit \div 10)

\* compile_checks.main, for one task and one --run-id. The task carries no
\* correction rollout, Letta settings, external context pointers or direct
\* external write, so lines 262-285 add no code.
\* reason_codes = sorted(set(reason_codes)) is kept as a set.
\* normalised_items and checklist_reason_codes are the locals of line 225,
\* which a failed compilation computes and does not print.
main_compile(raw_task, run_id) ==
  LET compiled_checks == normalise_checks(raw_task.acceptance_tests)
      checklist == normalise_checklist(raw_task.items)
      codes == ChecksReasonCodes(compiled_checks) \cup checklist.reason_codes
               \cup MemoryReasonCodes(raw_task) \cup EvidenceReasonCodes(raw_task)
               \cup TrustReasonCodes(raw_task)
  IN  IF codes # { }
      THEN [ done |-> TRUE, exit_code |-> 1, reason_codes |-> codes,
             contract_written |-> FALSE, checks |-> << >>, items |-> << >>,
             run_id |-> "", checklist_contract |-> NoChecklistContract,
             ok |-> FALSE, progress_delta |-> 0,
             gate_scores |-> FailGateScores(Len(compiled_checks)),
             normalised_items |-> checklist.items,
             checklist_reason_codes |-> checklist.reason_codes ]
      ELSE [ done |-> TRUE, exit_code |-> 0, reason_codes |-> { },
             contract_written |-> TRUE, checks |-> compiled_checks,
             items |-> checklist.items,
             run_id |-> run_id,
             checklist_contract |->
               ChecklistContract(run_id, checklist.items, checklist.reason_codes),
             ok |-> TRUE,
             progress_delta |-> ContractProgressDelta(Len(compiled_checks)),
             gate_scores |-> ContractGateScores(checklist.items, raw_task),
             normalised_items |-> checklist.items,
             checklist_reason_codes |-> checklist.reason_codes ]

Compile ==
  /\ ~compiled.done
  /\ task # NoTask
  /\ compiled' = main_compile(task, FirstRunId)
  /\ UNCHANGED << task, recompiled, runner_vars >>

\* A second compilation of the same task, with the same or another run id.
Recompile ==
  /\ compiled.done
  /\ ~recompiled.done
  /\ \E run_id \in RunIds : recompiled' = main_compile(task, run_id)
  /\ UNCHANGED << task, compiled, runner_vars >>

\* ======================================================= run_until_green.py
\* Lines 217-232: main's locals before the loop.
LoopStart ==
  /\ loop_exit = "RUNNING"
  /\ iterations = 0
  /\ all_passed = FALSE
  /\ aborted = FALSE
  /\ strict_early_terminated = FALSE
  /\ reason_codes = << >>
  /\ previous_progress = Null
  /\ progress_score = 0
  /\ consecutive_no_progress = 0
  /\ max_consecutive_no_progress = 0
  /\ strategy_switch_tag = "none"
  /\ diagnostic_ran = FALSE
  /\ diagnostic_result = NoDiagnostic
  /\ latest_checklist_state = checklist_items
  /\ strict_fail_item_ids = << >>
  /\ checklist_delta = NoDelta
  /\ progress_history = << >>
  /\ progress_deltas = << >>
  /\ writes = << >>
  /\ checklist_deltas = << >>
  /\ checklist_timeline = << >>
  /\ check_runs = 0
  /\ progress_event = NoProgressEvent
  /\ strategy_switch_event = 0
  /\ ever_passed = FALSE
  /\ summary = NoSummary
  /\ exit_code = Null

\* run_until_green on a contract: read_contract accepts any contract with a
\* non-empty list of checks.
Init ==
  /\ checks \in CheckLists
  /\ checklist_items \in Checklists
  /\ max_iterations \in MinIterations..MaxIterations
  /\ pc = "iterate"
  /\ LoopStart
  /\ task = NoTask
  /\ compiled = NotCompiled
  /\ recompiled = NotCompiled

\* Mutant of NextCounter: a positive delta leaves the counter as it is.
NextCounterMutant(no_progress_step, counter) ==
  IF no_progress_step THEN counter + 1 ELSE counter

\* Lines 269-272: consecutive_no_progress += 1, or = 0
NextCounter(no_progress_step, counter) ==
  IF no_progress_step THEN counter + 1 ELSE 0

LogRecord(iteration, event, name) ==
  [ file |-> "iteration_log.jsonl", iteration |-> iteration,
    event |-> event, name |-> name ]

TimelineRecord(iteration) ==
  [ file |-> "checklist_timeline.jsonl", iteration |-> iteration,
    event |-> "checklist_state", name |-> "" ]

\* Mutant of IterationWrites: the snapshot is written before the
\* progress_delta record.
IterationWritesMutant(check_names, iteration, has_checklist) ==
  [ i \in 1..Len(check_names) |-> LogRecord(iteration, "check", check_names[i]) ]
  \o (IF has_checklist THEN << TimelineRecord(iteration) >> ELSE << >>)
  \o << LogRecord(iteration, "progress_delta", "") >>

\* Lines 241-318: the records one iteration writes: one per check in
\* contract order, the progress_delta record, and the checklist snapshot.
IterationWrites(check_names, iteration, has_checklist) ==
  [ i \in 1..Len(check_names) |-> LogRecord(iteration, "check", check_names[i]) ]
  \o << LogRecord(iteration, "progress_delta", "") >>
  \o (IF has_checklist THEN << TimelineRecord(iteration) >> ELSE << >>)

\* Lines 334-385: the records of the diagnostic branch.
DiagnosticWrites(check_names, iteration) ==
  << LogRecord(iteration, "strategy_switch", "") >>
  \o [ i \in 1..Len(check_names) |->
         LogRecord(iteration, "diagnostic_check", check_names[i]) ]
  \o << LogRecord(iteration, "diagnostic_result", "") >>

\* --------------------------------------------------- main: one loop pass
\* Lines 236-331: run every check, update the progress counters, recompute
\* the checklist, then leave the loop (strict failure, all passed), enter
\* the diagnostic branch, or go on to the next iteration.
IterationBody ==
  /\ pc = "iterate"
  /\ iterations < max_iterations
  /\ \E check_pass_map \in [ { checks[i] : i \in 1..Len(checks) } -> BOOLEAN ] :
       LET iteration == iterations + 1
           passed_checks == Cardinality({ i \in 1..Len(checks) : check_pass_map[checks[i]] })
           iteration_passed == passed_checks = Len(checks)
           score == Score(passed_checks, Len(checks))
           delta == IF previous_progress # Null THEN score - previous_progress ELSE score
           no_progress_step == NoProgressStep(previous_progress, delta)
           counter == NextCounter(no_progress_step, consecutive_no_progress)
           built == _build_checklist_state(latest_checklist_state, check_pass_map, iteration)
           has_checklist == checklist_items # << >>
           strict_break == has_checklist /\ StrictBreak(built.strict_fail_item_ids)
           delta_row == [ iteration |-> iteration,
                          flipped_to_satisfied |-> built.flips,
                          strict_fail_item_ids |-> built.strict_fail_item_ids,
                          strict_blocked_item_ids |-> built.strict_blocked ]
       IN  /\ iterations' = iteration
           /\ check_runs' = check_runs + 1
           /\ progress_history' = Append(progress_history, score)
           /\ progress_deltas' = Append(progress_deltas, delta)
           /\ writes' = writes \o IterationWrites(checks, iteration, has_checklist)
           /\ progress_score' = score
           /\ previous_progress' = score
           /\ consecutive_no_progress' = counter
           /\ max_consecutive_no_progress' = Max(max_consecutive_no_progress, counter)
           /\ progress_event' =
                [ iteration |-> iteration, progress_score |-> score,
                  progress_delta |-> delta, no_progress_step |-> no_progress_step,
                  consecutive_no_progress |-> counter ]
           /\ ever_passed' = (ever_passed \/ passed_checks > 0)
           /\ IF has_checklist
              THEN /\ latest_checklist_state' = built.state
                   /\ strict_fail_item_ids' = built.strict_fail_item_ids
                   /\ checklist_delta' = delta_row
                   /\ checklist_deltas' = Append(checklist_deltas, delta_row)
                   /\ checklist_timeline' =
                        Append(checklist_timeline,
                               [ iteration |-> iteration,
                                 checklist_state |-> built.state,
                                 checklist_delta |-> delta_row ])
                   \* line 231: in the first iteration the list handed to
                   \* _build_checklist_state is the contract's own list
                   /\ checklist_items' = IF iterations = 0 THEN built.items_after
                                         ELSE checklist_items
              ELSE UNCHANGED << latest_checklist_state, strict_fail_item_ids,
                                checklist_delta, checklist_deltas,
                                checklist_timeline, checklist_items >>
           /\ IF strict_break
              THEN /\ strict_early_terminated' = TRUE
                   /\ aborted' = TRUE
                   /\ reason_codes' = reason_codes \o
                        << "validation_failed/checklist_strict_failed",
                           "evidence_missing/checklist_evidence_missing" >>
                   /\ all_passed' = all_passed
                   /\ pc' = "summarise"
                   /\ loop_exit' = "STRICT_ABORTED"
              ELSE IF iteration_passed
              THEN /\ all_passed' = TRUE
                   /\ pc' = "summarise"
                   /\ loop_exit' = "ALL_PASSED"
                   /\ UNCHANGED << strict_early_terminated, aborted, reason_codes >>
              ELSE /\ pc' = IF StagnationReached(counter) THEN "diagnose" ELSE "iterate"
                   /\ UNCHANGED << all_passed, strict_early_terminated, aborted,
                                   reason_codes, loop_exit >>
  /\ UNCHANGED << checks, max_iterations,
                  strategy_switch_tag, diagnostic_ran, diagnostic_result,
                  strategy_switch_event, summary, exit_code, compile_vars >>

\* Mutant of RecoveryBaseline: the iteration's own score stays the baseline.
RecoveryBaselineMutant(diagnostic_progress, score) == score

\* previous_progress = diagnostic_progress
RecoveryBaseline(diagnostic_progress, score) == diagnostic_progress

\* Lines 331-395: the diagnostic branch, a second execution of every check
\* inside the same iteration.
DiagnosticBranch ==
  /\ pc = "diagnose"
  /\ \E check_pass_map \in [ { checks[i] : i \in 1..Len(checks) } -> BOOLEAN ] :
       LET diagnostic_passed == Cardinality({ i \in 1..Len(checks) : check_pass_map[checks[i]] })
           diagnostic_progress == Score(diagnostic_passed, Len(checks))
           diagnostic_delta == diagnostic_progress - progress_score
       IN  /\ strategy_switch_tag' = "stalled_no_progress"
           /\ strategy_switch_event' = iterations
           /\ diagnostic_ran' = TRUE
           /\ diagnostic_result' =
                [ diagnostic_progress |-> diagnostic_progress,
                  diagnostic_delta |-> diagnostic_delta,
                  diagnostic_passed_checks |-> diagnostic_passed ]
           /\ ever_passed' = (ever_passed \/ diagnostic_passed > 0)
           /\ check_runs' = check_runs + 1
           /\ writes' = writes \o DiagnosticWrites(checks, iterations)
           /\ IF DiagnosticFlat(diagnostic_delta)
              THEN /\ aborted' = TRUE
                   /\ reason_codes' = reason_codes \o
                        << "no_progress/no_progress_loop",
                           "validation_failed/diagnostic_no_improvement" >>
                   /\ pc' = "summarise"
                   /\ loop_exit' = "DIAGNOSTIC_ABORTED"
                   /\ UNCHANGED << previous_progress, consecutive_no_progress,
                                   progress_history, progress_deltas >>
              ELSE /\ reason_codes' = Append(reason_codes, "no_progress/no_progress_loop")
                   /\ previous_progress' = RecoveryBaseline(diagnostic_progress, progress_score)
                   /\ progress_history' = Append(progress_history, diagnostic_progress)
                   /\ progress_deltas' = Append(progress_deltas, diagnostic_delta)
                   /\ consecutive_no_progress' = 0
                   /\ pc' = "iterate"
                   /\ UNCHANGED << aborted, loop_exit >>
  /\ UNCHANGED << checks, checklist_items, max_iterations,
                  iterations, all_passed, strict_early_terminated, progress_score,
                  max_consecutive_no_progress, latest_checklist_state,
                  strict_fail_item_ids, checklist_delta, checklist_deltas,
                  checklist_timeline, progress_event,
                  summary, exit_code, compile_vars >>

\* Mutant of LoopReasonCodes: max_iterations_reached ignores aborted.
LoopReasonCodesMutant(passed, was_aborted, n, budget) ==
  IF passed THEN << >>
  ELSE << "validation_failed/checks_failed" >>
       \o (IF was_aborted THEN << "validation_failed/fail_closed_abort" >> ELSE << >>)
       \o (IF n >= budget
           THEN << "validation_failed/max_iterations_reached" >> ELSE << >>)

\* Lines 397-402: the reason codes of a loop that ended without passing.
LoopReasonCodes(passed, was_aborted, n, budget) ==
  IF passed THEN << >>
  ELSE << "validation_failed/checks_failed" >>
       \o (IF was_aborted THEN << "validation_failed/fail_closed_abort" >> ELSE << >>)
       \o (IF n >= budget /\ ~was_aborted
           THEN << "validation_failed/max_iterations_reached" >> ELSE << >>)

\* Lines 415-422: the contract's correction_rollout, validated after the loop.
\* The other auxiliary declarations (memory bundle, evidence objects, Letta
\* settings, context pointers, untrusted execution) are absent from the
\* contracts drawn here and add no code.
RolloutReasonCodes(rollout) ==
  IF ~rollout.present THEN << >>
  ELSE IF rollout.validator_score_o1 = Null \/ rollout.validator_score_o2 = Null
  THEN << "validation_failed/self_correction_unscored" >>
  ELSE IF rollout.validator_score_o1 >= Unit /\ rollout.validator_score_o2 < Unit
  THEN << "validation_failed/self_correction_regressed" >>
  ELSE << >>

\* Mutant of FinalAllPassed: the reason codes do not clear all_passed.
FinalAllPassedMutant(passed, codes) == passed

\* Lines 466-468: reason_codes = _dedupe(reason_codes); if reason_codes: all_passed = False
FinalAllPassed(passed, codes) == passed /\ codes = << >>

\* round(num / den, 6) of a quotient given in units of 10^-6, den > 0
RoundDiv(num, den) ==
  IF num >= 0 THEN (2 * num + den) \div (2 * den)
  ELSE 0 - ((2 * (0 - num) + den) \div (2 * den))

\* Lines 451-454: net_delta = round(final_progress - initial_progress, 6)
NetDelta(history) ==
  IF history = << >> THEN 0 ELSE history[Len(history)] - history[1]

\* Line 456: sum(len(row.get("flipped_to_satisfied", [])) for row in checklist_deltas)
RECURSIVE ChecklistFlipCount(_)
ChecklistFlipCount(deltas) ==
  IF deltas = << >> THEN 0
  ELSE ChecklistFlipCount(SubSeq(deltas, 1, Len(deltas) - 1))
       + Len(deltas[Len(deltas)].flipped_to_satisfied)

\* Line 457: round(0.7 * net_delta + 0.3 * flip_count / max(1, len(checklist_items)), 6)
AggregateProgress(net_delta, flip_count, item_count) ==
  LET n == Max(1, item_count)
  IN  RoundDiv(7 * net_delta * n + 3 * flip_count * Unit, 10 * n)

\* return 0 if all_passed else 1
ExitStatus(passed) == IF passed THEN 0 ELSE 1

\* Lines 397-552: the code after the loop. The loop is left by a break
\* (pc = "summarise") or because range(1, max_iterations + 1) is exhausted.
\* The contract's correction_rollout (read at line 196, first used at line
\* 415) is drawn here.
Summarise ==
  /\ \/ pc = "summarise"
     \/ pc = "iterate" /\ iterations >= max_iterations
  /\ \E correction_rollout \in Rollouts :
     LET codes == _dedupe(reason_codes
                          \o LoopReasonCodes(all_passed, aborted, iterations, max_iterations)
                          \o RolloutReasonCodes(correction_rollout))
         final == FinalAllPassed(all_passed, codes)
         net_delta == NetDelta(progress_history)
         checklist_flip_count == ChecklistFlipCount(checklist_deltas)
     IN  /\ reason_codes' = codes
         /\ all_passed' = final
         /\ summary' =
              [ all_passed |-> final, aborted |-> aborted, iterations |-> iterations,
                strict_early_terminated |-> strict_early_terminated,
                reason_codes |-> codes,
                strategy_switch_tag |-> strategy_switch_tag,
                diagnostic_ran |-> diagnostic_ran,
                max_consecutive_no_progress |-> max_consecutive_no_progress,
                correction_rollout |-> correction_rollout,
                progress_delta |-> net_delta,
                progress_delta_aggregate |->
                  AggregateProgress(net_delta, checklist_flip_count,
                                    Len(checklist_items)),
                checklist_flip_count |-> checklist_flip_count ]
         /\ exit_code' = ExitStatus(final)
  /\ loop_exit' = IF pc = "iterate" THEN "MAX_ITER_EXHAUSTED" ELSE loop_exit
  /\ pc' = "done"
  /\ UNCHANGED << checks, checklist_items, max_iterations,
                  iterations, aborted, strict_early_terminated, previous_progress,
                  progress_score, consecutive_no_progress,
                  max_consecutive_no_progress, strategy_switch_tag, diagnostic_ran,
                  diagnostic_result, latest_checklist_state, strict_fail_item_ids,
                  checklist_delta, progress_history, progress_deltas,
                  checklist_deltas, checklist_timeline, writes,
                  progress_event, strategy_switch_event,
                  ever_passed, check_runs, compile_vars >>

Next == IterationBody \/ DiagnosticBranch \/ Summarise

Spec == Init /\ [][Next]_vars

\* ================================================================ claims
\* Reason codes the claims speak of.
StrictFailedCode == "validation_failed/checklist_strict_failed"
DiagnosticNoImprovementCode == "validation_failed/diagnostic_no_improvement"
MaxIterationsReachedCode == "validation_failed/max_iterations_reached"
ChecksFailedCode == "validation_failed/checks_failed"
FailClosedAbortCode == "validation_failed/fail_closed_abort"
NoProgressLoopCode == "no_progress/no_progress_loop"
CycleCode == "schema_violation/checklist_dependency_cycle"

\* A checklist snapshot exists (iteration >= 1 of a contract with a checklist).
HasSnapshot == iterations >= 1 /\ checklist_items # << >>

ItemIndexes == 1..Len(latest_checklist_state)

\* Some strict item is 'unsatisfied' in the snapshot of the current iteration.
StrictUnsatisfied ==
  /\ HasSnapshot
  /\ \E i \in ItemIndexes :
       /\ latest_checklist_state[i].strictness = "strict"
       /\ latest_checklist_state[i].status = "unsatisfied"

\* The diagnostic branch is entered, or has run, in the current iteration.
DiagnosticInIteration ==
  \/ pc = "diagnose"
  \/ iterations >= 1 /\ strategy_switch_event = iterations

\* The value consecutive_no_progress reached in the current iteration, as
\* logged in its progress_delta record.
CounterReached == progress_event.consecutive_no_progress

\* C1 -- Monotonic satisfaction: an item that is 'satisfied' in the snapshot
\* of one iteration is 'satisfied' in the snapshot of every later iteration
\* of the run, whatever its check or its dependencies' checks do later.
MonotonicSatisfaction ==
  [][ \A i \in ItemIndexes :
        (HasSnapshot /\ latest_checklist_state[i].status = "satisfied")
          => latest_checklist_state'[i].status = "satisfied" ]_vars

\* C2 -- Strict precedence: when a strict item is 'unsatisfied' after the
\* checklist is recomputed in iteration k, the loop stops in iteration k: no
\* further iteration runs, strict_early_terminated and aborted are set, the
\* reason codes hold validation_failed/checklist_strict_failed, and the
\* summary reports iterations = k; whatever max_iterations is.
StrictPrecedence ==
  StrictUnsatisfied =>
    /\ pc \in { "summarise", "done" }
    /\ loop_exit = "STRICT_ABORTED"
    /\ strict_early_terminated
    /\ aborted
    /\ Contains(reason_codes, StrictFailedCode)
    /\ pc = "done" =>
         /\ summary.iterations = iterations
         /\ summary.iterations = checklist_delta.iteration
         /\ summary.strict_early_terminated
         /\ summary.aborted
         /\ Contains(summary.reason_codes, StrictFailedCode)

\* C2 witness: a strict abort in a later iteration with budget left.
StrictPrecedenceWitness ==
  /\ pc = "done"
  /\ StrictUnsatisfied
  /\ iterations >= 2
  /\ iterations < max_iterations

\* C3 (as stated) -- Stagnation trigger exactness: the diagnostic branch runs
\* in an iteration if and only if consecutive_no_progress reached exactly 2
\* in that iteration, and after a diagnostic run that lets the loop go on
\* the counter is back at 0.
StagnationTriggerExactness ==
  /\ iterations >= 1 => (DiagnosticInIteration <=> CounterReached = 2)
  /\ (pc = "iterate" /\ DiagnosticInIteration) => consecutive_no_progress = 0

\* C3 (amended) -- the diagnostic branch runs in an iteration if and only if
\* consecutive_no_progress reached exactly 2 in that iteration and the
\* iteration did not end in a strict abort; the counter never exceeds 2; and
\* after a diagnostic run that lets the loop go on the counter is back at 0,
\* so the branch runs at most once per stagnation episode.
StagnationTriggerUnlessStrict ==
  /\ iterations >= 1 =>
       (DiagnosticInIteration <=> (CounterReached = 2 /\ ~StrictUnsatisfied))
  /\ CounterReached <= 2
  /\ consecutive_no_progress <= 2
  /\ (pc = "iterate" /\ DiagnosticInIteration) => consecutive_no_progress = 0

\* C3 witness: the diagnostic ran in this iteration of a run with a
\* checklist, recovered, and the loop goes on with the counter at 0.
StagnationTriggerWitness ==
  /\ pc = "iterate"
  /\ HasSnapshot
  /\ strategy_switch_event = iterations
  /\ CounterReached = 2
  /\ consecutive_no_progress = 0
  /\ iterations < max_iterations

\* Scenario B's contract and executor: one check, no checklist,
\* max_iterations = 4, and no execution of the check has passed.
ScenarioBRun ==
  /\ pc = "done"
  /\ Len(checks) = 1
  /\ checklist_items = << >>
  /\ max_iterations = 4
  /\ ~ever_passed

\* C4 (as stated) -- Scenario B: the run executes 4 iterations, never passes
\* and ends with validation_failed/checks_failed and
\* validation_failed/max_iterations_reached.
ScenarioBExhausts ==
  ScenarioBRun =>
    /\ summary.iterations = 4
    /\ ~summary.all_passed
    /\ Contains(summary.reason_codes, ChecksFailedCode)
    /\ Contains(summary.reason_codes, MaxIterationsReachedCode)

\* C4 (amended) -- Scenario B: the run executes 3 iterations, never passes,
\* and is aborted by the diagnostic branch of iteration 3: its reason codes
\* hold validation_failed/checks_failed and
\* validation_failed/diagnostic_no_improvement, and not
\* validation_failed/max_iterations_reached.
ScenarioBStalls ==
  ScenarioBRun =>
    /\ summary.iterations = 3
    /\ ~summary.all_passed
    /\ summary.aborted
    /\ Contains(summary.reason_codes, ChecksFailedCode)
    /\ Contains(summary.reason_codes, DiagnosticNoImprovementCode)
    /\ ~Contains(summary.reason_codes, MaxIterationsReachedCode)

\* C4 witness: a finished Scenario B run.
ScenarioBWitness == ScenarioBRun /\ summary.diagnostic_ran

\* C5 -- All-passed success: when the loop stops at an iteration in which
\* every check passed and no strict item is unsatisfied, and the contract's
\* auxiliary declarations are valid, the summary has all_passed = true and
\* reason_codes = [] and the exit status is 0, also after earlier failing
\* iterations and after a diagnostic branch that showed improvement.
AllPassedSuccess ==
  ( /\ pc = "done"
    /\ loop_exit = "ALL_PASSED"
    /\ RolloutReasonCodes(summary.correction_rollout) = << >> )
  => /\ summary.all_passed
     /\ summary.reason_codes = << >>
     /\ exit_code = 0

\* C6 -- satisfied_at_step write-once: for an item whose contract value is
\* null, satisfied_at_step is assigned in the first iteration in which the
\* item becomes 'satisfied', to that iteration's index, and is never reset
\* or changed by a later iteration.
SatisfiedAtStepWriteOnce ==
  [][ \A i \in ItemIndexes :
        checklist_items[i].satisfied_at_step = Null =>
          /\ ( /\ latest_checklist_state[i].satisfied_at_step = Null
               /\ latest_checklist_state'[i].status = "satisfied" )
             => latest_checklist_state'[i].satisfied_at_step = iterations'
          /\ latest_checklist_state[i].satisfied_at_step # Null
             => latest_checklist_state'[i].satisfied_at_step
                  = latest_checklist_state[i].satisfied_at_step ]_vars

\* The depends_on relation of a checklist, restricted to the edges whose
\* target is the item_id of some item.
DependsOnEdges(items) ==
  { e \in GraphKeys(items) \X GraphKeys(items) :
      \E i \in 1..Len(items) :
        /\ items[i].item_id = e[1]
        /\ Contains(items[i].depends_on, e[2]) }

Successors(edges, nodes) == { e[2] : e \in { x \in edges : x[1] \in nodes } }

RECURSIVE ReachableIn(_, _, _)
ReachableIn(edges, nodes, n) ==
  IF n = 0 THEN nodes
  ELSE ReachableIn(edges, nodes \cup Successors(edges, nodes), n - 1)

\* Some item id reaches itself along one or more depends_on edges.
DependsOnCycle(items) ==
  LET edges == DependsOnEdges(items)
  IN  \E id \in GraphKeys(items) :
        id \in ReachableIn(edges, Successors(edges, { id }), Len(items))

\* C7 -- Acyclicity: a task whose (normalised) checklist has a cycle in its
\* depends_on relation, of any length and at any position, fails closed
\* (non-zero exit, no contract written) with
\* schema_violation/checklist_dependency_cycle; a task whose checklist is
\* acyclic never gets that code.
Acyclicity ==
  compiled.done =>
    LET items == NormalisedItems(task.items)
    IN  /\ DependsOnCycle(items) =>
             /\ compiled.exit_code # 0
             /\ ~compiled.contract_written
             /\ CycleCode \in compiled.reason_codes
        /\ ~DependsOnCycle(items) => CycleCode \notin compiled.reason_codes

\* C8 -- Diagnostic abort: when the diagnostic branch has run in an iteration
\* with diagnostic_delta <= 0, the run ends in that iteration without another
\* check execution, with aborted, diagnostic_ran, strategy_switch_tag =
\* 'stalled_no_progress' and the reason codes no_progress/no_progress_loop and
\* validation_failed/diagnostic_no_improvement; a contract without checklist
\* whose single check fails on every execution ends this way, with a
\* non-zero exit, once max_iterations lets stagnation be reached.
DiagnosticAbort ==
  /\ ( /\ iterations >= 1
       /\ strategy_switch_event = iterations
       /\ diagnostic_result.diagnostic_delta <= 0 )
     => /\ pc \in { "summarise", "done" }
        /\ loop_exit = "DIAGNOSTIC_ABORTED"
        /\ aborted
        /\ diagnostic_ran
        /\ strategy_switch_tag = "stalled_no_progress"
        /\ Contains(reason_codes, NoProgressLoopCode)
        /\ Contains(reason_codes, DiagnosticNoImprovementCode)
        /\ pc = "done" =>
             /\ summary.iterations = strategy_switch_event
             /\ summary.aborted
             /\ summary.diagnostic_ran
             /\ summary.strategy_switch_tag = "stalled_no_progress"
             /\ Contains(summary.reason_codes, NoProgressLoopCode)
             /\ Contains(summary.reason_codes, DiagnosticNoImprovementCode)
             /\ exit_code # 0
  /\ ( /\ pc = "done"
       /\ Len(checks) = 1
       /\ checklist_items = << >>
       /\ ~ever_passed
       /\ max_iterations >= 3 )
     => /\ loop_exit = "DIAGNOSTIC_ABORTED"
        /\ summary.aborted
        /\ summary.diagnostic_ran
        /\ Contains(summary.reason_codes, DiagnosticNoImprovementCode)
        /\ exit_code # 0

\* C8 witness: a finished run aborted by a diagnostic whose delta is negative.
DiagnosticAbortWitness ==
  /\ pc = "done"
  /\ strategy_switch_event = iterations
  /\ diagnostic_result.diagnostic_delta < 0
  /\ summary.aborted

\* C9 -- Exit convention: in every summary all_passed holds exactly when
\* reason_codes is empty, and the exit status is 0 exactly when all_passed
\* holds; a run whose checks all passed is reported as failed when the
\* post-loop validation of the correction rollout adds a reason code.
ExitConvention ==
  pc = "done" =>
    /\ summary.all_passed <=> summary.reason_codes = << >>
    /\ exit_code = 0 <=> summary.all_passed
    /\ ~summary.all_passed => summary.reason_codes # << >>
    /\ ( /\ loop_exit = "ALL_PASSED"
         /\ RolloutReasonCodes(summary.correction_rollout) # << >> )
       => ~summary.all_passed /\ exit_code # 0

\* C9 witness: every check passed and the regressed rollout fails the run.
ExitConventionWitness ==
  /\ pc = "done"
  /\ loop_exit = "ALL_PASSED"
  /\ Contains(summary.reason_codes, "validation_failed/self_correction_regressed")
  /\ exit_code = 1

\* The three terminal codes a summary holds.
TerminalCodes ==
  { c \in { StrictFailedCode, DiagnosticNoImprovementCode, MaxIterationsReachedCode } :
      Contains(summary.reason_codes, c) }

BoundedTermination ==
  pc = "done" =>
    /\ summary.iterations <= max_iterations
    /\ summary.iterations = iterations
    /\ check_runs <= 2 * iterations
    /\ check_runs <= 2 * max_iterations

\* Some item of the current snapshot that carries item_id id is 'satisfied'.
SatisfiedInSnapshot(id) ==
  \E j \in ItemIndexes :
    /\ latest_checklist_state[j].item_id = id
    /\ latest_checklist_state[j].status = "satisfied"

\* The item ids of the contract's checklist are pairwise distinct.
DistinctItemIds(items) ==
  \A i, j \in 1..Len(items) : items[i].item_id = items[j].item_id => i = j

\* C12 -- Blocked dependents (Scenario C): when item b has a in its
\* depends_on and a is not 'satisfied' in the snapshot of an iteration, b is
\* 'blocked' in that snapshot, whatever b's own check returned, and b is not
\* in that iteration's flipped_to_satisfied.
BlockedDependents ==
  HasSnapshot =>
    \A i \in ItemIndexes :
      LET b == latest_checklist_state[i]
      IN  \A k \in 1..Len(b.depends_on) :
            ~SatisfiedInSnapshot(b.depends_on[k]) =>
              /\ b.status = "blocked"
              /\ ~Contains(checklist_delta.flipped_to_satisfied, b.item_id)

\* The gate credit of a result: the weights of its passed gates, summed.
RECURSIVE GateCredit(_)
GateCredit(gate_scores) ==
  IF gate_scores = << >> THEN 0
  ELSE GateCredit(SubSeq(gate_scores, 1, Len(gate_scores) - 1))
       + (IF gate_scores[Len(gate_scores)].passed
          THEN gate_scores[Len(gate_scores)].weight ELSE 0)

\* C13 -- Fail-closed compilation: compile_checks writes contract.json (exit
\* 0, ok true) if and only if no reason code was accumulated; with at least
\* one reason code no contract is written, the exit status is non-zero and
\* the result has ok false, progress_delta 0 and zero gate credit.
FailClosedCompilation ==
  compiled.done =>
    /\ compiled.contract_written <=> compiled.reason_codes = { }
    /\ compiled.contract_written => (compiled.exit_code = 0 /\ compiled.ok)
    /\ compiled.reason_codes # { } =>
         /\ compiled.exit_code # 0
         /\ ~compiled.ok
         /\ compiled.progress_delta = 0
         /\ GateCredit(compiled.gate_scores) = 0

\* C14 -- Blended reward: the aggregate_progress of a summary is positive only
\* when the run has both check-level improvement (net_delta > 0) and at least
\* one checklist flip; a run with flips but net_delta <= 0, and a run with
\* net_delta > 0 but no flip, never gets a positive aggregate_progress.
BlendedReward ==
  pc = "done" =>
    ( summary.progress_delta_aggregate > 0
      => (summary.progress_delta > 0 /\ summary.checklist_flip_count >= 1) )

\* A compilation result without its run_id fields.
WithoutRunIds(result) ==
  [ result EXCEPT !.run_id = "",
                  !.checklist_contract = [ @ EXCEPT !.run_id = "" ] ]

ContractImmutability ==
  [][ /\ checks' = checks
      /\ checklist_items' = checklist_items
      /\ max_iterations' = max_iterations
      /\ Len(checklist_timeline') >= Len(checklist_timeline)
      /\ \A i \in 1..Len(checklist_timeline) :
           checklist_timeline'[i] = checklist_timeline[i] ]_vars

\* C16 witness: a finished run of two or more iterations whose snapshots
\* differ from each other and from the contract's items.
ContractImmutabilityWitness ==
  /\ pc = "done"
  /\ Len(checklist_timeline) >= 2
  /\ latest_checklist_state # checklist_items
  /\ checklist_timeline[1].checklist_state # checklist_timeline[2].checklist_state
  /\ \A i \in 1..Len(checklist_items) :
       /\ checklist_items[i].status = "unsatisfied"
       /\ checklist_items[i].satisfied_at_step = Null

\* C17 -- Unique item ids: the item_id values of the checklist items of an
\* emitted contract are pairwise distinct; a task with two items of one
\* item_id does not compile into a contract that holds both.
UniqueItemIds ==
  compiled.contract_written => DistinctItemIds(compiled.checklist_contract.items)

\* C18 -- Dependency-ordered status: for an acyclic checklist with distinct
\* item ids, in whatever order its items are listed, the statuses of a
\* snapshot are those of an evaluation in dependency order: an item is
\* 'blocked' if and only if some depends_on target is not 'satisfied' in
\* that snapshot, whether the target is listed before or after it.
DependencyOrderedStatus ==
  ( /\ HasSnapshot
    /\ DistinctItemIds(checklist_items)
    /\ ~DependsOnCycle(checklist_items) )
  => \A i \in ItemIndexes :
       LET item == latest_checklist_state[i]
       IN  item.status = "blocked"
             <=> \E k \in 1..Len(item.depends_on) :
                   ~SatisfiedInSnapshot(item.depends_on[k])

\* Every check passed in the current iteration.
IterationPassed == iterations >= 1 /\ progress_score = Unit

\* C19 -- Strict abort is decided before all-passed and before the
\* diagnostic: an iteration in which every check passed but some strict item
\* is 'unsatisfied' ends the run STRICT_ABORTED with all_passed = false and
\* strict_early_terminated = true, never ALL_PASSED; and an iteration that
\* strict-aborts runs no diagnostic, even when consecutive_no_progress has
\* reached 2.
StrictAbortFirst ==
  /\ (StrictUnsatisfied /\ IterationPassed) =>
       /\ pc \in { "summarise", "done" }
       /\ loop_exit = "STRICT_ABORTED"
       /\ ~all_passed
       /\ strict_early_terminated
       /\ pc = "done" =>
            /\ ~summary.all_passed
            /\ summary.strict_early_terminated
            /\ exit_code # 0
  /\ loop_exit = "ALL_PASSED" => ~StrictUnsatisfied
  /\ loop_exit = "STRICT_ABORTED" =>
       /\ pc # "diagnose"
       /\ strategy_switch_event # iterations
       /\ check_runs <= 2 * iterations - 1

\* C19 witness: every check passed in a later iteration, a strict item names
\* no check of the contract, and the run ended by the strict abort.
StrictAbortFirstWitness ==
  /\ pc = "done"
  /\ StrictUnsatisfied
  /\ IterationPassed
  /\ iterations >= 2
  /\ loop_exit = "STRICT_ABORTED"

\* C19 witness of the second case, kept apart: a strict abort in an
\* iteration whose counter reached 2.
StrictAbortAtStagnation ==
  /\ pc = "done"
  /\ loop_exit = "STRICT_ABORTED"
  /\ CounterReached = 2

\* The diagnostic branch of iteration strategy_switch_event found improvement.
Recovered == diagnostic_ran /\ diagnostic_result.diagnostic_delta > 0

\* C20 -- Diagnostic recovery: when the diagnostic branch runs in iteration k
\* with diagnostic_delta > 0, the run is not aborted in iteration k,
\* consecutive_no_progress becomes 0, the iteration counter stays at k, the
\* diagnostic score is the last entry of the progress trajectory, and
\* iteration k+1 measures its progress_delta against diagnostic_progress.
DiagnosticRecovery ==
  /\ (Recovered /\ strategy_switch_event = iterations /\ pc # "diagnose") =>
       /\ pc \in { "iterate", "done" }
       /\ ~aborted
       /\ loop_exit \in { "RUNNING", "MAX_ITER_EXHAUSTED" }
       /\ consecutive_no_progress = 0
       /\ progress_event.iteration = iterations
       /\ previous_progress = diagnostic_result.diagnostic_progress
       /\ progress_history # << >>
       /\ progress_history[Len(progress_history)]
            = diagnostic_result.diagnostic_progress
       /\ pc = "done" => iterations >= max_iterations
  /\ (Recovered /\ iterations = strategy_switch_event + 1) =>
       /\ progress_event.iteration = iterations
       /\ progress_event.progress_delta
            = progress_event.progress_score - diagnostic_result.diagnostic_progress

\* C20 witness: iteration k+1 after a recovery scored above iteration k but
\* below the diagnostic re-run, and its delta is negative.
DiagnosticRecoveryWitness ==
  /\ Recovered
  /\ iterations = strategy_switch_event + 1
  /\ progress_score
       > diagnostic_result.diagnostic_progress - diagnostic_result.diagnostic_delta
  /\ progress_event.progress_delta < 0
  /\ consecutive_no_progress = 1

\* The number of trailing entries of deltas, the first entry excluded, that
\* are not positive.
RECURSIVE TrailingNoProgress(_)
TrailingNoProgress(deltas) ==
  IF Len(deltas) <= 1 THEN 0
  ELSE IF deltas[Len(deltas)] > 0 THEN 0
  ELSE 1 + TrailingNoProgress(SubSeq(deltas, 1, Len(deltas) - 1))

\* A step of the loop body: the iteration counter moves on by one.
IterationStep == iterations' = iterations + 1

CounterStep ==
  IterationStep =>
    LET delta == progress_deltas'[Len(progress_deltas')] IN
      /\ Len(progress_deltas') = Len(progress_deltas) + 1
      /\ delta = IF previous_progress # Null
                 THEN progress_score' - previous_progress
                 ELSE progress_score'
      /\ (iterations = 0 => previous_progress = Null /\ consecutive_no_progress' = 0)
      /\ (previous_progress # Null /\ delta <= 0
            => consecutive_no_progress' = consecutive_no_progress + 1)
      /\ (delta > 0 => consecutive_no_progress' = 0)

\* C21 -- No-progress counter: each iteration's progress_delta is its score
\* minus the previous score (its own score in the first iteration); the first
\* iteration is never a no-progress step; an iteration with a previous score
\* and a delta <= 0 adds exactly 1 to consecutive_no_progress and a positive
\* delta resets it to 0, so the counter is always the number of trailing
\* no-progress iterations since the last positive delta or recovery.
NoProgressCounter ==
  /\ [](consecutive_no_progress = TrailingNoProgress(progress_deltas))
  /\ [][CounterStep]_vars

\* A run whose counter went 1 and was reset by a positive delta, and a first
\* iteration that scored 0 is behind it.
NoProgressCounterWitness ==
  /\ Len(progress_deltas) >= 3
  /\ progress_deltas[1] = 0
  /\ progress_deltas[2] <= 0
  /\ progress_deltas[3] > 0
  /\ consecutive_no_progress = 0
  /\ max_consecutive_no_progress = 1

MissingRequiredCode == "schema_violation/checklist_contract_missing_required"
InvalidStrictnessCode == "schema_violation/checklist_invalid_strictness"

\* A value of a raw item that is absent or blank.
MissingValue(v) == v \in { Absent, "", " " }

ItemMissingRequired(item) == MissingValue(item.item_id) \/ MissingValue(item.question)

\* The raw items without those missing item_id or question, in order.
RECURSIVE CompleteItems(_)
CompleteItems(raw_items) ==
  IF raw_items = << >> THEN << >>
  ELSE LET front == CompleteItems(SubSeq(raw_items, 1, Len(raw_items) - 1))
           item == raw_items[Len(raw_items)]
       IN  IF ItemMissingRequired(item) THEN front ELSE Append(front, item)

\* C22 -- Checklist item normalisation: normalise_checklist rejects a raw
\* item (leaves it out of the normalised items and accumulates
\* schema_violation/checklist_contract_missing_required) exactly when its
\* item_id or question is absent or blank; a kept item gets status
\* 'unsatisfied' when its status is absent or not an allowed one, and
\* strictness 'normal' when its strictness is invalid.
ItemNormalisation ==
  compiled.done =>
    LET kept == CompleteItems(task.items)
        items == compiled.normalised_items
    IN  /\ Len(items) = Len(kept)
        /\ (MissingRequiredCode \in compiled.checklist_reason_codes)
             <=> (\E i \in 1..Len(task.items) : ItemMissingRequired(task.items[i]))
        /\ \A k \in 1..Len(items) :
             k <= Len(kept) =>
               /\ items[k].status =
                    IF kept[k].status \in CHECKLIST_ALLOWED_STATUS
                    THEN kept[k].status ELSE "unsatisfied"
               /\ items[k].strictness =
                    IF kept[k].strictness \in CHECKLIST_ALLOWED_STRICTNESS
                    THEN kept[k].strictness ELSE "normal"

MemoryCodes ==
  { "schema_violation/memory_update_bundle_missing_required",
    "validation_failed/memory_commit_missing",
    "validation_failed/memory_provenance_missing",
    "validation_failed/defrag_relocation_missing" }

EvidenceCodes ==
  { "schema_violation/evidence_object_invalid_type",
    "schema_violation/evidence_object_missing_required",
    "validation_failed/evidence_confidence_out_of_range" }

TrustCodes ==
  { "validation_failed/missing_execution_profile",
    "validation_failed/missing_execution_audit_ref" }

\* The task is tagged as a memory-writing task.
MemoryTagged == task.task_tag = "memory_write"

\* The trust level the task declares, in the task or in its execution
\* audit, is an untrusted one.
DeclaredUntrusted ==
  LET declared == IF task.trust_level # Absent THEN task.trust_level
                  ELSE task.execution_audit.trust_level
  IN  declared \in { "untrusted", "generated_untrusted" }

\* C23 -- Conditional auxiliary validation: memory-update-bundle codes are
\* produced only for a task tagged memory_write, evidence-object codes only
\* when strict_evidence_objects is requested, execution-profile and audit-ref
\* codes only when the declared trust level is untrusted; a task with valid
\* checks and checklist that is not so tagged compiles successfully whatever
\* the declarations hold.
ConditionalAuxValidation ==
  compiled.done =>
    /\ (compiled.reason_codes \cap MemoryCodes # { } => MemoryTagged)
    /\ (compiled.reason_codes \cap EvidenceCodes # { } => task.strict_evidence_objects)
    /\ (compiled.reason_codes \cap TrustCodes # { } => DeclaredUntrusted)
    /\ (/\ ~MemoryTagged
        /\ ~task.strict_evidence_objects
        /\ ~DeclaredUntrusted
        /\ compiled.checklist_reason_codes = { }
        /\ normalise_checks(task.acceptance_tests) # << >>
        => compiled.exit_code = 0 /\ compiled.contract_written)

MissingChecksCode == "schema_violation/validation_contract_missing_checks"

\* A raw check whose command is absent or blank.
NotRunnable(check) == MissingValue(check.command)

\* The names of the raw checks that have a command, in order; an unnamed
\* check is named after its position.
RunnableNames(raw_checks) ==
  LET runnable == { i \in 1..Len(raw_checks) : ~NotRunnable(raw_checks[i]) }
      Name(i) == IF raw_checks[i].name = Absent
                 THEN DefaultCheckName(i - 1) ELSE raw_checks[i].name
      RECURSIVE Walk(_)
      Walk(i) ==
        IF i > Len(raw_checks) THEN << >>
        ELSE IF i \in runnable THEN << Name(i) >> \o Walk(i + 1)
        ELSE Walk(i + 1)
  IN  Walk(1)

\* C24 -- Runnable checks only: an emitted contract holds at least one
\* check, every check in it has a non-empty command, and its checks are
\* exactly the raw checks whose command is neither absent nor blank, in
\* order; a task whose checks are all dropped or absent fails closed with
\* schema_violation/validation_contract_missing_checks and no contract.
RunnableChecksOnly ==
  compiled.done =>
    LET names == RunnableNames(task.acceptance_tests)
    IN  /\ compiled.contract_written =>
             /\ Len(compiled.checks) >= 1
             /\ \A i \in 1..Len(compiled.checks) :
                  ~MissingValue(compiled.checks[i].command)
             /\ [ i \in 1..Len(compiled.checks) |-> compiled.checks[i].name ] = names
        /\ names = << >> =>
             /\ compiled.exit_code # 0
             /\ ~compiled.contract_written
             /\ compiled.checks = << >>
             /\ MissingChecksCode \in compiled.reason_codes

\* A contract emitted for a task one of whose raw checks was dropped.
RunnableChecksOnlyWitness ==
  /\ compiled.contract_written
  /\ Len(compiled.checks) >= 1
  /\ \E i \in 1..Len(task.acceptance_tests) : NotRunnable(task.acceptance_tests[i])

\* The records written to the iteration log, and those of iteration i.
IterationLog == SelectSeq(writes, LAMBDA r : r.file = "iteration_log.jsonl")
LogOfIteration(i) == SelectSeq(IterationLog, LAMBDA r : r.iteration = i)
Timeline == SelectSeq(writes, LAMBDA r : r.file = "checklist_timeline.jsonl")

\* What the log of iteration i has to be: the checks in contract order and
\* the progress_delta record, and after them the diagnostic records or none.
CheckRecords(i, event) ==
  [ k \in 1..Len(checks) |->
      [ file |-> "iteration_log.jsonl", iteration |-> i, event |-> event,
        name |-> checks[k] ] ]

MarkRecord(i, event) ==
  [ file |-> "iteration_log.jsonl", iteration |-> i, event |-> event, name |-> "" ]

PlainIterationLog(i) == CheckRecords(i, "check") \o << MarkRecord(i, "progress_delta") >>

DiagnosedIterationLog(i) ==
  PlainIterationLog(i)
  \o << MarkRecord(i, "strategy_switch") >>
  \o CheckRecords(i, "diagnostic_check")
  \o << MarkRecord(i, "diagnostic_result") >>

PositionOf(r) == CHOOSE k \in 1..Len(writes) : writes[k] = r

IsPrefix(s, t) == Len(s) <= Len(t) /\ SubSeq(t, 1, Len(s)) = s

AuditOrder ==
  /\ \A k \in 1..Len(IterationLog) : IterationLog[k].iteration \in 1..iterations
  /\ \A k \in 1..(Len(IterationLog) - 1) :
       IterationLog[k].iteration <= IterationLog[k + 1].iteration
  /\ \A i \in 1..iterations :
       LogOfIteration(i) \in { PlainIterationLog(i), DiagnosedIterationLog(i) }
  /\ IF checklist_items = << >> THEN Timeline = << >>
     ELSE /\ Len(Timeline) = iterations
          /\ \A i \in 1..iterations :
               /\ Timeline[i].iteration = i
               /\ PositionOf(Timeline[i]) > PositionOf(MarkRecord(i, "progress_delta"))

\* C25 -- Deterministic audit ordering: the iteration log holds, for each
\* iteration in turn, one record per check in contract order, one
\* progress_delta record and, only if the diagnostic fired, one
\* strategy_switch record, one diagnostic_check record per check in contract
\* order and one diagnostic_result record; iteration indices never decrease;
\* a written record is never changed or removed; with a non-empty checklist
\* the timeline gets one snapshot per executed iteration, after that
\* iteration's progress_delta record.
DeterministicAuditOrder ==
  /\ [](pc # "idle" => AuditOrder)
  /\ [][IsPrefix(writes, writes')]_vars

\* A finished run with two checks and a checklist in which the diagnostic
\* fired and a later iteration was logged.
DeterministicAuditOrderWitness ==
  /\ pc = "done"
  /\ Len(checks) = 2
  /\ checklist_items # << >>
  /\ \E i \in 1..iterations :
       /\ i < iterations
       /\ LogOfIteration(i) = DiagnosedIterationLog(i)
  /\ Len(Timeline) = iterations

\* C26 -- Referential integrity of the compiled checklist: in every emitted
\* contract each entry of an item's depends_on is the item_id of an item of
\* the same checklist and each item's pass_when_check is the name of a check
\* of the contract.
ReferentialIntegrity ==
  compiled.contract_written =>
    LET ids == { compiled.items[i].item_id : i \in 1..Len(compiled.items) }
        names == { compiled.checks[i].name : i \in 1..Len(compiled.checks) }
    IN  \A i \in 1..Len(compiled.items) :
          /\ \A k \in 1..Len(compiled.items[i].depends_on) :
               compiled.items[i].depends_on[k] \in ids
          /\ compiled.items[i].pass_when_check \in names

\* The two halves of C26, each on its own.
DependsOnResolved ==
  compiled.contract_written =>
    \A i \in 1..Len(compiled.items) :
      \A k \in 1..Len(compiled.items[i].depends_on) :
        \E j \in 1..Len(compiled.items) :
          compiled.items[j].item_id = compiled.items[i].depends_on[k]

PassWhenCheckResolved ==
  compiled.contract_written =>
    \A i \in 1..Len(compiled.items) :
      \E j \in 1..Len(compiled.checks) :
        compiled.checks[j].name = compiled.items[i].pass_when_check

\* C27 -- A passing run has no unmet strict item: whenever the run ends with
\* all_passed = true and exit status 0, every checklist item of strictness
\* 'strict' is 'satisfied' in the final checklist_state.
NoUnmetStrictOnPass ==
  (pc = "done" /\ summary.all_passed /\ exit_code = 0) =>
    \A i \in 1..Len(latest_checklist_state) :
      latest_checklist_state[i].strictness = "strict" =>
        latest_checklist_state[i].status = "satisfied"

\* The part of C27 the loop does enforce: no passing run has a strict item
\* that is 'unsatisfied'.
NoUnsatisfiedStrictOnPass ==
  (pc = "done" /\ summary.all_passed /\ exit_code = 0) =>
    \A i \in 1..Len(latest_checklist_state) :
      latest_checklist_state[i].strictness = "strict" =>
        latest_checklist_state[i].status # "unsatisfied"

\* The last execution of the checks was the diagnostic re-run, and every
\* check passed in it.
DiagnosticPassedLast ==
  /\ diagnostic_ran
  /\ strategy_switch_event = iterations
  /\ diagnostic_result.diagnostic_progress = Unit

\* C28 -- A fully passing diagnostic re-run is honoured: a run whose most
\* recent execution of the checks is a diagnostic re-run in which every
\* check passed is reported as passed, and ends neither with
\* validation_failed/checks_failed nor with
\* validation_failed/max_iterations_reached.
DiagnosticPassHonoured ==
  (pc = "done" /\ DiagnosticPassedLast /\ summary.correction_rollout = NoRollout) =>
    /\ summary.all_passed
    /\ ~Contains(summary.reason_codes, "validation_failed/checks_failed")
    /\ ~Contains(summary.reason_codes, "validation_failed/max_iterations_reached")

\* C29 -- Bounded no-progress counter: in every state of a run
\* 0 <= consecutive_no_progress <= 2, so the reported
\* max_consecutive_no_progress never exceeds the threshold 2; no iteration
\* starts with consecutive_no_progress = 2; and the diagnostic branch never
\* runs before iteration 3.
BoundedNoProgressCounter ==
  /\ consecutive_no_progress \in 0..NoProgressThreshold
  /\ max_consecutive_no_progress \in 0..NoProgressThreshold
  /\ (pc = "done" => summary.max_consecutive_no_progress <= NoProgressThreshold)
  /\ (pc = "iterate" => consecutive_no_progress < NoProgressThreshold)
  /\ (DiagnosticInIteration \/ diagnostic_ran => iterations >= 3)

\* The counter reached 2 in iteration 3, the diagnostic recovered, and the
\* loop is about to start iteration 4 with the counter at 0.
BoundedNoProgressCounterWitness ==
  /\ pc = "iterate"
  /\ iterations = 3
  /\ iterations < max_iterations
  /\ strategy_switch_event = 3
  /\ max_consecutive_no_progress = NoProgressThreshold
  /\ consecutive_no_progress = 0

ExactlyOne(a, b, c) ==
  \/ a /\ ~b /\ ~c
  \/ ~a /\ b /\ ~c
  \/ ~a /\ ~b /\ c

\* The row at position i of a timeline record is consistent with the
\* record's delta.
RowConsistent(snapshot, i) ==
  LET row == snapshot.checklist_state[i]
      delta == snapshot.checklist_delta
  IN  /\ (row.satisfied_at_step # Null) <=> (row.status = "satisfied")
      /\ Contains(delta.flipped_to_satisfied, row.item_id)
           <=> /\ checklist_items[i].satisfied_at_step = Null
               /\ row.satisfied_at_step = snapshot.iteration
      /\ row.strictness = "strict" =>
           ExactlyOne(row.status = "satisfied",
                      Contains(delta.strict_fail_item_ids, row.item_id),
                      Contains(delta.strict_blocked_item_ids, row.item_id))

\* C30 -- Snapshot consistency: in every checklist snapshot, for every
\* item, satisfied_at_step is non-null if and only if status is 'satisfied';
\* the item is listed in the iteration's flipped_to_satisfied exactly when
\* its satisfied_at_step was set in that iteration, to the iteration index;
\* and every strict item is in exactly one of satisfied,
\* strict_fail_item_ids and strict_blocked_item_ids.
SnapshotConsistency ==
  \A t \in 1..Len(checklist_timeline) :
    \A i \in 1..Len(checklist_timeline[t].checklist_state) :
      RowConsistent(checklist_timeline[t], i)

\* C30 on contracts whose item ids are distinct.
SnapshotConsistencyDistinct == DistinctItemIds(checklist_items) => SnapshotConsistency

\* ------------------------------------------- compile_checks specification
InitCompile ==
  /\ task \in Tasks \ { NoTask }
  /\ compiled = NotCompiled
  /\ recompiled = NotCompiled
  /\ checks = << >>
  /\ checklist_items = << >>
  /\ max_iterations = 0
  /\ pc = "idle"
  /\ LoopStart

NextCompile == Compile

SpecCompile == InitCompile /\ [][NextCompile]_vars

\* compile_checks.py on tasks with auxiliary declarations
InitCompileAux ==
  /\ task \in AuxTasks
  /\ compiled = NotCompiled
  /\ recompiled = NotCompiled
  /\ checks = << >>
  /\ checklist_items = << >>
  /\ max_iterations = 0
  /\ pc = "idle"
  /\ LoopStart

NextCompileAux == Compile

SpecCompileAux == InitCompileAux /\ [][NextCompileAux]_vars

NextCompileTwice == Compile \/ Recompile

SpecCompileTwice == InitCompile /\ [][NextCompileTwice]_vars

====
